---- MODULE Spec2Model ----
(***************************************************************************)
(* magma-nvim: the execution/output core of the plugin package             *)
(* rplugin/python3/magma/ (runtime.py, magmabuffer.py, outputchunks.py,    *)
(* utils.py and the plugin class of __init__.py), as a state machine.      *)
(*                                                                         *)
(* Python values are encoded as follows.                                   *)
(*   - an object reference is a positive integer (an index into heap or    *)
(*     spans); None is 0;                                                  *)
(*   - an Optional[int] is <<>> (None) or <<n>>;                           *)
(*   - a str is a sequence of string pieces, so that concatenation is \o   *)
(*     and "text + newline" differs from "text";                           *)
(*   - a dict (a mime-bundle) is a sequence of <<key, value>> pairs in     *)
(*     insertion order.                                                    *)
(***************************************************************************)
EXTENDS Integers, Sequences, FiniteSets, TLC

VARIABLES
    initialized,                \* Magma.initialized
    registered,                 \* Magma.buffers holds a MagmaBuffer for the document
    state,                      \* JupyterRuntime.state
    inbox,                      \* iopub messages received and not yet read by tick
    heap,                       \* the Output objects, by object id
    spans,                      \* the Span objects created so far, by object id
    outputs,                    \* MagmaBuffer.outputs: dict Span -> Output, in insertion order
    queued_outputs,             \* MagmaBuffer.queued_outputs
    current_output,             \* MagmaBuffer.current_output
    selected_cell,              \* MagmaBuffer.selected_cell
    should_open_display_window, \* MagmaBuffer.should_open_display_window
    updating_interface,         \* MagmaBuffer.updating_interface
    display_window,             \* MagmaBuffer.display_window is not None
    cursor,                     \* the editor's cursor position
    options,                    \* MagmaOptions, read once
    modules,                    \* the python modules an import statement finds
    kernel,                     \* the kernel's side: requests received, messages sent
    file,                       \* the session file written by MagmaSave
    hist,                       \* history of the calls made (used by the properties only)
    consumer,                   \* where the caller of get_iopub_msg stands
    buffers,                    \* Magma.buffers: document -> the MagmaBuffer registered for it
    live,                       \* the MagmaBuffers created, by object id: not yet deinit
    tempfiles,                  \* the temp files of the session that exist on disk
    allocated_files,            \* JupyterRuntime.allocated_files
    canvas                      \* Magma.canvas, and what the terminal shows

\* the parts of the plugin's surroundings that have a specification of their own
periphery == <<consumer, buffers, live, tempfiles, allocated_files, canvas>>

vars == <<initialized, registered, state, inbox, heap, spans, outputs, queued_outputs,
          current_output, selected_cell, should_open_display_window,
          updating_interface, display_window, cursor, options, modules, kernel, file, hist,
          periphery>>

----------------------------------------------------------------------------
(* Bounds of the model. *)

\* sessions created in SpecRegistry
MaxSessions == 4

\* the documents (buffer numbers) of SpecRegistry
Docs == {1, 2}

\* messages the kernel of SpecRuntime sends in one behaviour
MaxMsgs == 4
\* Output objects waiting in the queue at the start of SpecRuntime
MaxOutputs == 2
\* run_code calls (evaluate and re-evaluate) in one behaviour of Spec
MaxRuns == 3
\* MagmaInit commands in one behaviour of Spec
MaxInits == 1
\* MagmaLoad commands in one behaviour of Spec
MaxLoads == 1
\* messages the kernel of Spec sends in one behaviour
MaxReplies == 3
\* messages that arrive in one behaviour of SpecRuntimeAny
MaxAnyMsgs == 2
\* a status no member of OutputStatus has
BadStatus == 7

----------------------------------------------------------------------------
(* Values. *)

None == 0

OutputStatus_HOLD == 0
OutputStatus_RUNNING == 1
OutputStatus_DONE == 2

RuntimeState_STARTING == 0
RuntimeState_IDLE == 1
RuntimeState_RUNNING == 2

\* self.external_kernel: every branch of JupyterRuntime.__init__ sets it to True
external_kernel == TRUE

RECURSIVE Join(_)
\* "\n".join(lines), each line a str
Join(lines) ==
    IF lines = <<>> THEN <<>>
    ELSE IF Len(lines) = 1 THEN Head(lines)
    ELSE Head(lines) \o <<"\n">> \o Join(Tail(lines))

RECURSIVE Keys(_)
\* list(data.keys())
Keys(data) == IF data = <<>> THEN <<>> ELSE <<Head(data)[1]>> \o Keys(Tail(data))

RECURSIVE Get(_, _)
\* data.get(key): <<>> when absent, else <<value>>
Get(data, key) ==
    IF data = <<>> THEN <<>>
    ELSE IF Head(data)[1] = key THEN <<Head(data)[2]>>
    ELSE Get(Tail(data), key)

----------------------------------------------------------------------------
(* Output chunks (outputchunks.py). *)

TextOutputChunk(text) ==
    [kind |-> "Text", text |-> text, jupyter_data |-> <<>>, jupyter_metadata |-> <<>>]

TextLnOutputChunk(text) ==
    [TextOutputChunk(text \o <<"\n">>) EXCEPT !.kind = "TextLn"]

BadOutputChunk(mimetypes) ==
    [TextLnOutputChunk(<<"<No usable MIMEtype! Received mimetypes ">> \o mimetypes \o <<">">>)
        EXCEPT !.kind = "Bad"]

MimetypesOutputChunk(mimetypes) ==
    [TextLnOutputChunk(<<"[DEBUG] Received mimetypes: ">> \o mimetypes)
        EXCEPT !.kind = "Mimetypes"]

ErrorOutputChunk(name, message, traceback) ==
    [TextLnOutputChunk(Join(<< <<"[Error] ">> \o name \o <<": ">> \o message,
                               <<"Traceback:">> >> \o traceback))
        EXCEPT !.kind = "Error"]

AbortedOutputChunk ==
    [TextLnOutputChunk(<<"<Kernel aborted with no error message.>">>)
        EXCEPT !.kind = "Aborted"]

ImageOutputChunk(img_path) ==
    [kind |-> "Image", text |-> img_path, jupyter_data |-> <<>>, jupyter_metadata |-> <<>>]

\* Output.__init__
Output(execution_count) ==
    [execution_count |-> execution_count,
     status |-> OutputStatus_HOLD,
     chunks |-> <<>>,
     success |-> TRUE,
     old |-> FALSE,
     should_clear |-> FALSE]

\* the keys of OUTPUT_CHUNKS, in the order the loop of to_outputchunk tries them
OUTPUT_CHUNKS ==
    <<"image/png", "image/svg+xml", "application/vnd.plotly.v1+json", "text/latex", "text/plain">>

\* the modules the conversions import: PIL by every image tier (_to_image_chunk)
Modules == {"PIL", "cairosvg", "plotly", "pnglatex"}

\* the modules the process_func of a mimetype imports
Imports(mimetype) ==
    IF mimetype = "image/png" THEN {"PIL"}
    ELSE IF mimetype = "image/svg+xml" THEN {"cairosvg", "PIL"}
    ELSE IF mimetype = "application/vnd.plotly.v1+json" THEN {"plotly", "PIL"}
    ELSE IF mimetype = "text/latex" THEN {"pnglatex", "PIL"}
    ELSE {}

RECURSIVE FirstPresent(_, _)
\* a loop that takes the first mimetype the bundle holds, importable or not
FirstPresent(data, i) ==
    IF i > Len(OUTPUT_CHUNKS) THEN 0
    ELSE IF Get(data, OUTPUT_CHUNKS[i]) # <<>> THEN i
    ELSE FirstPresent(data, i + 1)

RECURSIVE FirstUsable(_, _)
\* the loop of to_outputchunk from tier i on: the index of the first mimetype the
\* bundle holds whose process_func raises no ImportError, or 0
FirstUsable(data, i) ==
    IF i > Len(OUTPUT_CHUNKS) THEN 0
    ELSE IF Get(data, OUTPUT_CHUNKS[i]) # <<>> /\ Imports(OUTPUT_CHUNKS[i]) \subseteq modules
         THEN i
    ELSE FirstUsable(data, i + 1)

\* to_outputchunk: one chunk for the bundle, carrying the bundle and its metadata;
\* a conversion whose imports succeed is taken to return its chunk
to_outputchunk(data, metadata) ==
    LET i == FirstUsable(data, 1)
        chunk == IF i = 0 THEN BadOutputChunk(Keys(data))
                 ELSE IF OUTPUT_CHUNKS[i] = "text/plain"
                      THEN TextLnOutputChunk(Get(data, "text/plain")[1])
                      ELSE ImageOutputChunk(<<"png of ", OUTPUT_CHUNKS[i]>>)
    IN  [chunk EXCEPT !.jupyter_data = <<data>>, !.jupyter_metadata = <<metadata>>]

----------------------------------------------------------------------------
(* Positions and spans (utils.py). A position is <<lineno, colno>>. *)

\* Position.__lt__
Position_lt(a, b) == a[1] < b[1] \/ (a[1] = b[1] /\ a[2] < b[2])

\* Position.__le__
Position_le(a, b) == a[1] < b[1] \/ (a[1] = b[1] /\ a[2] <= b[2])

\* a containment that includes the end of the span
Span_contains_closed(span, pos) == Position_le(span.begin, pos) /\ Position_le(pos, span.end)

\* Span.__contains__
Span_contains(span, pos) == Position_le(span.begin, pos) /\ Position_lt(pos, span.end)

\* the cursor positions of the document
Positions == {<<0, 0>>, <<0, 1>>, <<1, 0>>}

\* the regions the user evaluates: they overlap in <<0, 1>>
Regions == {[begin |-> <<0, 0>>, end |-> <<1, 0>>], [begin |-> <<0, 1>>, end |-> <<1, 1>>]}

----------------------------------------------------------------------------
(* Kernel messages (the iopub channel). *)

\* a message with content and msg_type, its content holding every key its kind needs
Msg(t) ==
    [msg_type |-> t, has_content |-> TRUE, has_keys |-> TRUE,
     execution_count |-> 0, execution_state |-> "", data |-> <<>>,
     text |-> <<>>, wait |-> FALSE,
     ename |-> <<>>, evalue |-> <<>>, traceback |-> <<>>, status |-> ""]

ExecuteInput(n) == [Msg("execute_input") EXCEPT !.execution_count = n]
Status(s) == [Msg("status") EXCEPT !.execution_state = s]
ExecuteResult(data) == [Msg("execute_result") EXCEPT !.data = data]
DisplayData(data) == [Msg("display_data") EXCEPT !.data = data]
Stream(text) == [Msg("stream") EXCEPT !.text = text]
Error(ename, evalue, traceback) ==
    [Msg("error") EXCEPT !.ename = ename, !.evalue = evalue, !.traceback = traceback]
ClearOutput(wait) == [Msg("clear_output") EXCEPT !.wait = wait]
\* an execute_reply, content["status"] being "ok", "error" or "aborted"
ExecuteReply(status) == [Msg("execute_reply") EXCEPT !.status = status]

\* the bundle of the result "2"
BundleText == << <<"text/plain", <<"2">> >> >>
\* a bundle no tier of to_outputchunk can use
BundleHtml == << <<"text/html", <<"<b>">> >> >>

\* the mimetypes a kernel may put in a bundle, in the order it lists them
Mimetypes ==
    <<"text/html", "text/plain", "text/latex", "application/vnd.plotly.v1+json",
      "image/svg+xml", "image/png">>

\* the bundle that holds the mimetypes of the set S
Bundle(S) ==
    LET held == SelectSeq(Mimetypes, LAMBDA t : t \in S)
    IN  [i \in 1..Len(held) |->
            <<held[i], IF held[i] = "text/plain" THEN <<"2">> ELSE <<"payload">> >>]

\* the bundles of SpecChunk
Bundles == {Bundle(S) : S \in SUBSET {Mimetypes[i] : i \in 1..Len(Mimetypes)}}

\* the messages the kernel of SpecRuntime may send, in any order
Messages ==
    { ExecuteInput(1), Status("idle"), Status("busy"),
      ExecuteResult(BundleText),
      Error(<<"ValueError">>, <<"bad">>, << <<"line1">> >>),
      Stream(<<"a">>), ClearOutput(TRUE) }

\* messages _tick_one has no use for or cannot read: the execution state a
\* kernel announces when it starts, a status without its key, a message without
\* content, and the kinds that are ignored
FaultMessages ==
    { Status("starting"),
      [Msg("status") EXCEPT !.has_keys = FALSE],
      [Msg("stream") EXCEPT !.has_content = FALSE],
      Msg("execute_reply") }

\* the kinds _tick_one has no use for: execute_reply, update_display_data and
\* a kind it does not know
IgnoredMessages ==
    { ExecuteReply("ok"), ExecuteReply("aborted"), Msg("update_display_data"),
      Msg("comm_open") }

\* the messages the kernel of SpecIgnored may send, in any order
IgnorableMessages ==
    { Stream(<<"a">>), ClearOutput(TRUE), Status("idle") } \cup IgnoredMessages

\* the messages the kernel of SpecRuntimeAny may send, in any order
AnyMessages == Messages \cup FaultMessages

----------------------------------------------------------------------------
(* JupyterRuntime (runtime.py). *)

\* a session that never counts as ready
is_ready_never(st) == FALSE

\* JupyterRuntime.is_ready
is_ready(st) == st > RuntimeState_STARTING

\* JupyterRuntime.__init__ with a kernel name: a kernel is started and a client
\* connected to it; k.alive counts the kernels started and not shut down
JupyterRuntime_init(k) == [received |-> 0, sent |-> 0, alive |-> k.alive + 1]

\* JupyterRuntime.deinit, the kernel's side
JupyterRuntime_deinit(k) ==
    [received |-> 0, sent |-> 0,
     alive |-> IF external_kernel = FALSE THEN k.alive - 1 ELSE k.alive]

\* the elements of a list
Range(list) == {list[i] : i \in 1..Len(list)}

\* JupyterRuntime.deinit, the files: every path of allocated_files that exists
\* is removed
remove_allocated(files, allocated) == files \ Range(allocated)

\* JupyterRuntime._alloc_file around a with block: the NamedTemporaryFile is
\* created with delete=False, the block runs at the yield, and the path is
\* appended after the block has returned; body_ok: the block raises nothing
alloc_file(files, allocated, body_ok) ==
    LET path == Cardinality(files \cup Range(allocated)) + 1
    IN  [path |-> path, tempfiles |-> files \cup {path},
         allocated_files |-> IF body_ok THEN Append(allocated, path) ELSE allocated]

\* JupyterRuntime.run_code: sends the code and returns nothing
JupyterRuntime_run_code == None

Ret(o, st, did) == [output |-> o, state |-> st, did |-> did, exc |-> ""]
Raise(o, st, e) == [output |-> o, state |-> st, did |-> FALSE, exc |-> e]

\* JupyterRuntime._append_chunk
append_chunk(output, data, metadata) ==
    LET c == IF options.show_mimetype_debug
             THEN Append(output.chunks, MimetypesOutputChunk(Keys(data)))
             ELSE output.chunks
    IN  [output EXCEPT !.chunks = Append(c, to_outputchunk(data, metadata))]

\* _tick_one, the first statement: a deferred clear is carried out
apply_should_clear(output) ==
    IF output.should_clear
    THEN [output EXCEPT !.chunks = <<>>, !.should_clear = FALSE]
    ELSE output

\* _tick_one, message_type == "execute_input"
on_execute_input(output, st, content) ==
    IF ~content.has_keys THEN Raise(output, st, "KeyError")
    ELSE LET o == [output EXCEPT !.execution_count = <<content.execution_count>>]
         IN  IF external_kernel = FALSE
             THEN IF o.status = OutputStatus_DONE THEN Raise(o, st, "AssertionError")
                  ELSE IF o.status = OutputStatus_HOLD
                       THEN Ret([o EXCEPT !.status = OutputStatus_RUNNING], st, TRUE)
                       ELSE Ret([o EXCEPT !.status = OutputStatus_DONE], st, TRUE)
             ELSE Ret(o, st, TRUE)

\* a status handler that leaves the status of the output alone when the kernel
\* is idle
on_status_keep(output, st, content) ==
    IF content.execution_state = "idle" THEN Ret(output, RuntimeState_IDLE, TRUE)
    ELSE IF content.execution_state = "busy" THEN Ret(output, RuntimeState_RUNNING, TRUE)
    ELSE Ret(output, st, FALSE)

\* a status handler that puts the output back to RUNNING when the kernel is busy
on_status_regress(output, st, content) ==
    IF content.execution_state = "idle"
    THEN Ret([output EXCEPT !.status = OutputStatus_DONE], RuntimeState_IDLE, TRUE)
    ELSE Ret([output EXCEPT !.status = OutputStatus_RUNNING], RuntimeState_RUNNING, TRUE)

\* _tick_one, message_type == "status"
on_status(output, st, content) ==
    IF ~content.has_keys THEN Raise(output, st, "KeyError")
    ELSE IF content.execution_state = "starting" THEN Raise(output, st, "AssertionError")
    ELSE IF content.execution_state = "idle"
         THEN Ret([output EXCEPT !.status = OutputStatus_DONE], RuntimeState_IDLE, TRUE)
    ELSE IF content.execution_state = "busy"
         THEN Ret(output, RuntimeState_RUNNING, TRUE)
    ELSE Ret(output, st, FALSE)

\* a data handler that appends nothing
on_data_drop(output, st, content) == Ret(output, st, TRUE)

\* _tick_one, message_type == "execute_result" or "display_data"
on_data(output, st, content) ==
    IF ~content.has_keys THEN Raise(output, st, "KeyError")
    ELSE Ret(append_chunk(output, content.data, <<>>), st, TRUE)

\* an error handler that leaves success as it is
on_error_success(output, st, content) ==
    Ret([output EXCEPT
           !.chunks = Append(@, ErrorOutputChunk(content.ename, content.evalue,
                                                 content.traceback))], st, TRUE)

\* _tick_one, message_type == "error"
on_error(output, st, content) ==
    IF ~content.has_keys THEN Raise(output, st, "KeyError")
    ELSE Ret([output EXCEPT
                !.chunks = Append(@, ErrorOutputChunk(content.ename, content.evalue,
                                                      content.traceback)),
                !.success = FALSE], st, TRUE)

\* _tick_one, message_type == "stream"
on_stream(output, st, content) ==
    IF ~content.has_keys THEN Raise(output, st, "KeyError")
    ELSE Ret([output EXCEPT !.chunks = Append(@, TextOutputChunk(content.text))], st, TRUE)

\* _tick_one, message_type == "clear_output"
on_clear_output(output, st, content) ==
    IF ~content.has_keys THEN Raise(output, st, "KeyError")
    ELSE IF content.wait
         THEN Ret([output EXCEPT !.should_clear = TRUE], st, TRUE)
         ELSE Ret([output EXCEPT !.chunks = <<>>], st, TRUE)

\* JupyterRuntime._tick_one. copy_on_demand changes no state of the plugin.
tick_one(output, st, content) ==
    LET o == apply_should_clear(output)
        t == content.msg_type
    IN  IF t = "execute_input" THEN on_execute_input(o, st, content)
        ELSE IF t = "status" THEN on_status(o, st, content)
        ELSE IF t = "execute_reply" THEN Ret(o, st, FALSE)
        ELSE IF t \in {"execute_result", "display_data"} THEN on_data(o, st, content)
        ELSE IF t = "error" THEN on_error(o, st, content)
        ELSE IF t = "stream" THEN on_stream(o, st, content)
        ELSE IF t = "update_display_data" THEN Ret(o, st, FALSE)
        ELSE IF t = "clear_output" THEN on_clear_output(o, st, content)
        ELSE Ret(o, st, FALSE)

RECURSIVE drain_loop(_, _, _, _, _)
\* JupyterRuntime.tick, the while loop: read until the queue is empty or the
\* output is DONE. seen collects the messages handed to _tick_one.
drain_loop(output, st, queue, did, seen) ==
    IF queue = <<>>
    THEN [output |-> output, state |-> st, inbox |-> queue, did |-> did, exc |-> "",
          seen |-> seen]
    ELSE LET message == Head(queue) IN
         IF ~message.has_content
         THEN drain_loop(output, st, Tail(queue), did, seen)
         ELSE LET r == tick_one(output, st, message) IN
              IF r.exc # "" \/ r.output.status = OutputStatus_DONE
              THEN [output |-> r.output, state |-> r.state, inbox |-> Tail(queue),
                    did |-> did \/ r.did, exc |-> r.exc, seen |-> Append(seen, message)]
              ELSE drain_loop(r.output, r.state, Tail(queue), did \/ r.did,
                              Append(seen, message))

\* JupyterRuntime.tick(output); ready: wait_for_ready(timeout=0) returns (else
\* it raises RuntimeError). The result holds the new heap, state and inbox.
JupyterRuntime_tick(ref, ready) ==
    LET idle == [heap |-> heap, state |-> state, inbox |-> inbox, did |-> FALSE,
                 exc |-> "", seen |-> <<>>]
    IN  IF ~is_ready(state) /\ ~ready THEN idle
        ELSE LET did == ~is_ready(state)
                 st == IF did THEN RuntimeState_IDLE ELSE state
             IN  IF ref = None THEN [idle EXCEPT !.state = st, !.did = did]
                 ELSE LET r == drain_loop(heap[ref], st, inbox, did, <<>>)
                      IN  [heap |-> [heap EXCEPT ![ref] = r.output], state |-> r.state,
                           inbox |-> r.inbox, did |-> r.did, exc |-> r.exc,
                           seen |-> r.seen]

----------------------------------------------------------------------------
(* MagmaBuffer (magmabuffer.py). The methods are operators over a record   *)
(* of the object's fields; exc names the exception a method leaves with.    *)

\* span in self.outputs
dict_has(d, key) == \E i \in 1..Len(d) : d[i][1] = key

\* self.outputs[span]
dict_get(d, key) == d[CHOOSE i \in 1..Len(d) : d[i][1] = key][2]

\* del self.outputs[span]
dict_del(d, key) == SelectSeq(d, LAMBDA e : e[1] # key)

\* self.outputs[span] = value: a new key goes last, an existing key keeps its place
dict_set(d, key, value) ==
    IF dict_has(d, key)
    THEN [i \in 1..Len(d) |-> IF d[i][1] = key THEN <<key, value>> ELSE d[i]]
    ELSE Append(d, <<key, value>>)

\* the fields of the MagmaBuffer registered for the document
MB ==
    [outputs |-> outputs, queued_outputs |-> queued_outputs,
     current_output |-> current_output, selected_cell |-> selected_cell,
     should_open_display_window |-> should_open_display_window,
     updating_interface |-> updating_interface,
     display_window |-> display_window, exc |-> ""]

\* MagmaBuffer.__init__
MagmaBuffer_init ==
    [outputs |-> <<>>, queued_outputs |-> <<>>,
     current_output |-> None, selected_cell |-> None,
     should_open_display_window |-> FALSE,
     updating_interface |-> FALSE,
     display_window |-> FALSE, exc |-> ""]

\* MagmaBuffer._check_if_done_running
check_if_done_running(mb, hp) ==
    LET is_idle == \/ mb.current_output = None
                   \/ hp[mb.current_output].status = OutputStatus_DONE
    IN  IF is_idle /\ mb.queued_outputs # <<>>
        THEN [mb EXCEPT !.current_output = Head(mb.queued_outputs),
                        !.queued_outputs = Tail(mb.queued_outputs)]
        ELSE mb

RECURSIVE scan_forward(_, _, _, _)
\* a scan of self.outputs.keys() in insertion order, from key Len(outs) - i + 1 up
scan_forward(sp, outs, pos, i) ==
    IF i = 0 THEN None
    ELSE IF Span_contains(sp[outs[Len(outs) - i + 1][1]], pos)
         THEN outs[Len(outs) - i + 1][1]
    ELSE scan_forward(sp, outs, pos, i - 1)

RECURSIVE scan_reversed(_, _, _, _)
\* the loop of _get_selected_span over reversed(self.outputs.keys()), from key i down
scan_reversed(sp, outs, pos, i) ==
    IF i = 0 THEN None
    ELSE IF Span_contains(sp[outs[i][1]], pos) THEN outs[i][1]
    ELSE scan_reversed(sp, outs, pos, i - 1)

\* MagmaBuffer._get_selected_span
get_selected_span(sp, outs, pos) == scan_reversed(sp, outs, pos, Len(outs))

\* OutputBuffer.__init__: the ledger value that stands for an OutputBuffer whose
\* output is the Output ref
OutputBuffer(ref) == 0 - ref

\* whether a value of the ledger is an Output: neither None nor an OutputBuffer
is_Output(value) == value > None

\* MagmaBuffer.clear_interface
clear_interface(mb) ==
    IF mb.updating_interface THEN mb ELSE [mb EXCEPT !.display_window = FALSE]

\* MagmaBuffer._show_outputs; fits: win_row < win_height
show_outputs(mb, output, fits) ==
    IF ~is_Output(output) THEN [mb EXCEPT !.exc = "AttributeError"]
    ELSE IF mb.display_window THEN [mb EXCEPT !.exc = "AssertionError"]
    ELSE IF fits THEN [mb EXCEPT !.display_window = TRUE]
    ELSE mb

\* MagmaBuffer._show_selected
show_selected(mb, span, fits) ==
    IF mb.should_open_display_window
    THEN show_outputs(mb, dict_get(mb.outputs, span), fits)
    ELSE mb

\* MagmaBuffer.update_interface, the document being the focused one
update_interface(mb, sp, pos, fits) ==
    LET mb1 == [clear_interface(mb) EXCEPT !.updating_interface = TRUE]
        sel == get_selected_span(sp, mb1.outputs, pos)
        open == IF options.automatically_open_output THEN TRUE
                ELSE IF mb1.selected_cell # sel THEN FALSE
                ELSE mb1.should_open_display_window
        mb2 == [mb1 EXCEPT !.should_open_display_window = open, !.selected_cell = sel]
        mb3 == IF sel # None THEN show_selected(mb2, sel, fits) ELSE mb2
    IN  IF mb3.exc # "" THEN mb3 ELSE [mb3 EXCEPT !.updating_interface = FALSE]

\* a run_code that leaves the selection on the span it ran, without the refresh
run_code_no_refresh(mb, sp, span, pos, fits) ==
    LET new_output == JupyterRuntime_run_code
        outs == dict_set(IF dict_has(mb.outputs, span) THEN dict_del(mb.outputs, span)
                         ELSE mb.outputs, span, new_output)
        mb1 == [mb EXCEPT !.outputs = outs,
                          !.queued_outputs = Append(@, new_output),
                          !.selected_cell = span,
                          !.should_open_display_window = TRUE]
    IN  check_if_done_running(mb1, heap)

\* MagmaBuffer.run_code
run_code(mb, sp, span, pos, fits) ==
    LET new_output == JupyterRuntime_run_code
        outs == dict_set(IF dict_has(mb.outputs, span) THEN dict_del(mb.outputs, span)
                         ELSE mb.outputs, span, new_output)
        mb1 == [mb EXCEPT !.outputs = outs,
                          !.queued_outputs = Append(@, new_output),
                          !.selected_cell = span,
                          !.should_open_display_window = TRUE]
        mb2 == update_interface(mb1, sp, pos, fits)
    IN  IF mb2.exc # "" THEN mb2 ELSE check_if_done_running(mb2, heap)

\* a reevaluate_cell that empties the ledger when no cell is under the cursor
reevaluate_cell_clear(mb, sp, pos, fits) ==
    LET mb1 == [mb EXCEPT !.selected_cell = get_selected_span(sp, mb.outputs, pos)]
    IN  IF mb1.selected_cell = None
        THEN [mb1 EXCEPT !.exc = "MagmaException", !.outputs = <<>>]
        ELSE run_code(mb1, sp, mb1.selected_cell, pos, fits)

\* MagmaBuffer.reevaluate_cell
reevaluate_cell(mb, sp, pos, fits) ==
    LET mb1 == [mb EXCEPT !.selected_cell = get_selected_span(sp, mb.outputs, pos)]
    IN  IF mb1.selected_cell = None THEN [mb1 EXCEPT !.exc = "MagmaException"]
        ELSE run_code(mb1, sp, mb1.selected_cell, pos, fits)

\* a delete_cell that drops every entry of the ledger with the selected one
delete_cell_all(mb, sp, pos, fits) ==
    LET mb1 == [mb EXCEPT !.selected_cell = get_selected_span(sp, mb.outputs, pos)]
    IN  IF mb1.selected_cell = None THEN mb1
        ELSE update_interface([mb1 EXCEPT !.outputs = <<>>], sp, pos, fits)

\* MagmaBuffer.delete_cell
delete_cell(mb, sp, pos, fits) ==
    LET mb1 == [mb EXCEPT !.selected_cell = get_selected_span(sp, mb.outputs, pos)]
    IN  IF mb1.selected_cell = None THEN mb1
        ELSE update_interface([mb1 EXCEPT !.outputs = dict_del(@, mb1.selected_cell)],
                              sp, pos, fits)

\* win_row < win_height in _show_outputs: read only when an Output is shown
Fits == IF \E i \in 1..Len(outputs) : outputs[i][2] # None THEN BOOLEAN ELSE {TRUE}

\* whether wait_for_ready(timeout=0) returns: asked only while the session starts
Ready == IF is_ready(state) THEN {TRUE} ELSE BOOLEAN

\* the fields of the MagmaBuffer after a method that left it as mb
SetMB(mb) ==
    /\ outputs' = mb.outputs
    /\ queued_outputs' = mb.queued_outputs
    /\ current_output' = mb.current_output
    /\ selected_cell' = mb.selected_cell
    /\ should_open_display_window' = mb.should_open_display_window
    /\ updating_interface' = mb.updating_interface
    /\ display_window' = mb.display_window

----------------------------------------------------------------------------
(* History of the calls made: read by the properties, never by the program. *)

hist_init ==
    [runs |-> 0, inits |-> 0, loads |-> 0, op |-> "", exc |-> "", did |-> FALSE, ref |-> None,
     span |-> None, seen |-> <<>>, pre_state |-> RuntimeState_STARTING,
     pre_empty |-> TRUE, drained |-> <<>>, saved |-> <<>>, ran |-> <<>>,
     notified |-> FALSE]

\* the history after the call op that left with exc
Called(op, exc) ==
    [hist EXCEPT !.op = op, !.exc = exc, !.did = FALSE, !.ref = None, !.span = None,
                 !.seen = <<>>, !.pre_state = RuntimeState_STARTING, !.pre_empty = TRUE,
                 !.notified = FALSE,
                 !.saved = IF op \in {"save", "deinit", "load"} THEN @ ELSE <<>>]

----------------------------------------------------------------------------
(* The kernel. *)

\* what a kernel sends for its n-th execute request
KernelBlock(n) == <<Status("busy"), ExecuteInput(n), Status("idle")>>

\* kernel_client.execute(code): the kernel receives one more request
KernelExecute == [kernel EXCEPT !.received = @ + 1]

\* a kernel answering its requests in order sends its next message
KernelReply ==
    /\ registered
    /\ kernel.sent < MaxReplies
    /\ kernel.sent < Len(KernelBlock(1)) * kernel.received
    /\ LET n == (kernel.sent \div Len(KernelBlock(1))) + 1
           i == (kernel.sent % Len(KernelBlock(1))) + 1
       IN  inbox' = Append(inbox, KernelBlock(n)[i])
    /\ kernel' = [kernel EXCEPT !.sent = @ + 1]
    /\ UNCHANGED <<initialized, registered, state, heap, spans, outputs, queued_outputs,
                   current_output, selected_cell, should_open_display_window,
                   updating_interface, display_window, cursor, options, periphery, modules, file, hist>>

\* any message arrives on the iopub channel
Arrive ==
    /\ registered
    /\ kernel.sent < MaxMsgs
    /\ \E m \in Messages : inbox' = Append(inbox, m)
    /\ kernel' = [kernel EXCEPT !.sent = @ + 1]
    /\ UNCHANGED <<initialized, registered, state, heap, spans, outputs, queued_outputs,
                   current_output, selected_cell, should_open_display_window,
                   updating_interface, display_window, cursor, options, periphery, modules, file, hist>>

\* a message arrives on the iopub channel, of a kind that is ignored or not
ArriveIgnorable ==
    /\ registered
    /\ kernel.sent < MaxMsgs
    /\ \E m \in IgnorableMessages : inbox' = Append(inbox, m)
    /\ kernel' = [kernel EXCEPT !.sent = @ + 1]
    /\ UNCHANGED <<initialized, registered, state, heap, spans, outputs, queued_outputs,
                   current_output, selected_cell, should_open_display_window,
                   updating_interface, display_window, cursor, options, periphery, modules, file, hist>>

\* any message at all arrives on the iopub channel
ArriveAny ==
    /\ registered
    /\ kernel.sent < MaxAnyMsgs
    /\ \E m \in AnyMessages : inbox' = Append(inbox, m)
    /\ kernel' = [kernel EXCEPT !.sent = @ + 1]
    /\ UNCHANGED <<initialized, registered, state, heap, spans, outputs, queued_outputs,
                   current_output, selected_cell, should_open_display_window,
                   updating_interface, display_window, cursor, options, periphery, modules, file, hist>>

----------------------------------------------------------------------------
(* The commands and callbacks of the plugin (Magma, __init__.py). *)

\* :MagmaInit
MagmaInit ==
    /\ hist.inits < MaxInits
    /\ initialized' = TRUE
    /\ registered' = TRUE
    /\ SetMB(MagmaBuffer_init)
    /\ state' = RuntimeState_STARTING
    /\ inbox' = <<>>
    /\ kernel' = JupyterRuntime_init(kernel)
    /\ hist' = [Called("init", "") EXCEPT !.inits = @ + 1]
    /\ allocated_files' = <<>>
    /\ UNCHANGED <<heap, spans, cursor, options, consumer, buffers, live, tempfiles, canvas,
                   modules, file>>

\* :MagmaDeinit on a document that has a session
MagmaDeinit ==
    /\ registered
    /\ registered' = FALSE
    /\ SetMB(MagmaBuffer_init)
    /\ state' = RuntimeState_STARTING
    /\ inbox' = <<>>
    /\ kernel' = JupyterRuntime_deinit(kernel)
    /\ tempfiles' = remove_allocated(tempfiles, allocated_files)
    /\ hist' = Called("deinit", "")
    /\ UNCHANGED <<initialized, heap, spans, cursor, options, modules, file, consumer, buffers,
                   live, allocated_files, canvas>>

\* a command that needs a session, on a document that has none: _get_magma raises
NoSession ==
    /\ ~registered
    /\ \E cmd \in {"deinit", "evaluate", "reevaluate", "delete", "show_output", "save"} :
        hist' = Called(cmd, "MagmaException")
    /\ initialized' = TRUE
    /\ UNCHANGED <<registered, state, inbox, heap, spans, outputs, queued_outputs,
                   current_output, selected_cell, should_open_display_window,
                   updating_interface, display_window, cursor, options, periphery, modules, kernel, file>>

\* MagmaOperatorfunc with a selection kind other than line and char
OperatorfuncUnsupported ==
    /\ initialized
    /\ hist' = Called("operatorfunc", "MagmaException")
    /\ UNCHANGED <<initialized, registered, state, inbox, heap, spans, outputs,
                   queued_outputs, current_output, selected_cell,
                   should_open_display_window, updating_interface, display_window,
                   cursor, options, periphery, modules, kernel, file>>

\* :MagmaEvaluateVisual, :MagmaEvaluateLine, :MagmaEvaluateOperator (_do_evaluate)
Evaluate ==
    /\ registered
    /\ hist.runs < MaxRuns
    /\ \E region \in Regions, fits \in Fits :
        LET span == Len(spans) + 1
            sp == Append(spans, region)
            mb == run_code(MB, sp, span, cursor, fits)
        IN  /\ spans' = sp
            /\ SetMB(mb)
            /\ hist' = [Called("evaluate", mb.exc) EXCEPT
                          !.runs = @ + 1, !.span = span, !.ran = Append(@, hist.runs + 1)]
    /\ kernel' = KernelExecute
    /\ UNCHANGED <<initialized, registered, state, inbox, heap, cursor, options, periphery, modules, file>>

\* :MagmaReevaluateCell
Reevaluate ==
    /\ registered
    /\ hist.runs < MaxRuns
    /\ \E fits \in Fits :
        LET sel == get_selected_span(spans, outputs, cursor)
            mb == reevaluate_cell(MB, spans, cursor, fits)
        IN  /\ SetMB(mb)
            /\ IF sel = None
               THEN /\ hist' = Called("reevaluate", mb.exc)
                    /\ UNCHANGED kernel
               ELSE /\ hist' = [Called("reevaluate", mb.exc) EXCEPT
                                  !.runs = @ + 1, !.span = sel,
                                  !.ran = [@ EXCEPT ![sel] = hist.runs + 1]]
                    /\ kernel' = KernelExecute
    /\ UNCHANGED <<initialized, registered, state, inbox, heap, spans, cursor, options, periphery, modules, file>>

\* :MagmaDelete
Delete ==
    /\ registered
    /\ \E fits \in Fits :
        LET mb == delete_cell(MB, spans, cursor, fits)
        IN  /\ SetMB(mb)
            /\ hist' = [Called("delete", mb.exc) EXCEPT
                          !.span = get_selected_span(spans, outputs, cursor)]
    /\ UNCHANGED <<initialized, registered, state, inbox, heap, spans, cursor, options, periphery, modules, kernel, file>>

\* the cursor moves: autocmd CursorMoved calls MagmaUpdateInterface
CursorMoved ==
    /\ \E pos \in Positions \ {cursor}, fits \in Fits :
        /\ cursor' = pos
        /\ IF registered
           THEN LET mb == update_interface(MB, spans, pos, fits)
                IN  SetMB(mb) /\ hist' = Called("update_interface", mb.exc)
           ELSE UNCHANGED <<outputs, queued_outputs, current_output, selected_cell,
                            should_open_display_window, updating_interface,
                            display_window, hist>>
    /\ UNCHANGED <<initialized, registered, state, inbox, heap, spans, options, periphery, modules, kernel, file>>

\* MagmaBuffer._get_content_checksum of the document
get_content_checksum == "md5 of the document"

\* no file at the path of the session file
NoFile ==
    [exists |-> FALSE, valid |-> FALSE, version |-> 1,
     content_checksum |-> get_content_checksum, cells |-> <<>>]

\* MagmaUpdateInterface called with the cursor where it is (WinScrolled, BufEnter)
UpdateInterface ==
    /\ registered
    /\ \E fits \in Fits :
        LET mb == update_interface(MB, spans, cursor, fits)
        IN  SetMB(mb) /\ hist' = Called("update_interface", mb.exc)
    /\ UNCHANGED <<initialized, registered, state, inbox, heap, spans, cursor, options, periphery,
                   modules, kernel, file>>

\* the chunks of an output as MagmaBuffer.save writes them
save_chunks(chunks) ==
    LET kept == SelectSeq(chunks, LAMBDA c : c.jupyter_data # <<>> /\ c.jupyter_metadata # <<>>)
    IN  [i \in 1..Len(kept) |->
            [data |-> kept[i].jupyter_data[1], metadata |-> kept[i].jupyter_metadata[1]]]

\* MagmaBuffer.save: the cells of the session file
MagmaBuffer_save(outs, sp, hp) ==
    IF \E i \in 1..Len(outs) : outs[i][2] = None
    THEN [exc |-> "AttributeError", cells |-> <<>>]
    ELSE [exc |-> "",
          cells |-> [i \in 1..Len(outs) |->
                        [span |-> sp[outs[i][1]],
                         execution_count |-> hp[outs[i][2]].execution_count,
                         status |-> hp[outs[i][2]].status,
                         success |-> hp[outs[i][2]].success,
                         chunks |-> save_chunks(hp[outs[i][2]].chunks)]]]

\* a load that never finds the checksums to differ
checksum_same(data) == FALSE

\* load: self._get_content_checksum() != data['content_checksum']
checksum_differs(data) == get_content_checksum # data.content_checksum

\* the Output a cell of the file describes, marked old
load_output(cell) ==
    [Output(cell.execution_count) EXCEPT
       !.status = cell.status,
       !.success = cell.success,
       !.chunks = [i \in 1..Len(cell.chunks) |->
                     to_outputchunk(cell.chunks[i].data, cell.chunks[i].metadata)],
       !.old = TRUE]

RECURSIVE load_cells(_, _)
\* MagmaBuffer.load, the loop over data['cells']: a null execution_count fails
\* assert_has_key, a status that OutputStatus does not know raises ValueError
load_cells(cells, acc) ==
    IF cells = <<>> THEN acc
    ELSE LET cell == Head(cells)
             sp == Append(acc.spans, cell.span)
         IN  IF cell.execution_count = <<>>
             THEN [acc EXCEPT !.spans = sp, !.exc = "MagmaIOError"]
             ELSE IF cell.status \notin {OutputStatus_HOLD, OutputStatus_RUNNING,
                                         OutputStatus_DONE}
             THEN [acc EXCEPT !.spans = sp, !.exc = "ValueError"]
             ELSE LET hp == Append(acc.heap, load_output(cell))
                  IN  load_cells(Tail(cells),
                                 [acc EXCEPT !.spans = sp, !.heap = hp,
                                             !.outputs = Append(@, <<Len(sp), Len(hp)>>)])

RECURSIVE io_load_cells(_, _)
\* load of io.py, the loop over data["cells"]: the Output read from the cell is
\* dropped and the span is given a new OutputBuffer, whose output is Output(None)
io_load_cells(cells, acc) ==
    IF cells = <<>> THEN acc
    ELSE LET cell == Head(cells)
             sp == Append(acc.spans, cell.span)
         IN  IF cell.execution_count = <<>>
             THEN [acc EXCEPT !.spans = sp, !.exc = "MagmaIOError"]
             ELSE IF cell.status \notin {OutputStatus_HOLD, OutputStatus_RUNNING,
                                         OutputStatus_DONE}
             THEN [acc EXCEPT !.spans = sp, !.exc = "ValueError"]
             ELSE LET hp == Append(acc.heap, Output(<<>>))
                  IN  io_load_cells(Tail(cells),
                                    [acc EXCEPT !.spans = sp, !.heap = hp,
                                                !.outputs = Append(@, <<Len(sp),
                                                                OutputBuffer(Len(hp))>>)])

\* load (MagmaBuffer.load, or the load of io.py when io): the checksum, then the cells
load(data, io) ==
    LET acc == [spans |-> spans, heap |-> heap, outputs |-> <<>>, exc |-> ""]
    IN  IF checksum_differs(data) THEN [acc EXCEPT !.exc = "MagmaIOError"]
        ELSE IF io THEN io_load_cells(data.cells, acc)
        ELSE load_cells(data.cells, acc)

\* what the properties compare of a ledger entry: coordinates, status, mime-bundles
EntryView(sp, hp, e) ==
    [span |-> sp[e[1]],
     output |-> IF e[2] = None THEN <<>>
                ELSE << [status |-> hp[e[2]].status,
                         bundles |-> save_chunks(hp[e[2]].chunks)] >>]

\* :MagmaSave: the file is opened for writing, then MagmaBuffer.save is dumped
MagmaSave ==
    /\ registered
    /\ LET r == MagmaBuffer_save(outputs, spans, heap)
       IN  /\ file' = [exists |-> TRUE, valid |-> r.exc = "", version |-> 1,
                       content_checksum |-> get_content_checksum, cells |-> r.cells]
           /\ hist' = [Called("save", r.exc) EXCEPT
                         !.saved = [i \in 1..Len(outputs) |->
                                      EntryView(spans, heap, outputs[i])]]
    /\ UNCHANGED <<initialized, registered, state, inbox, heap, spans, outputs, queued_outputs,
                   current_output, selected_cell, should_open_display_window,
                   updating_interface, display_window, cursor, options, periphery, modules, kernel>>

\* :MagmaLoad of the session file (command_load), the cells read by
\* MagmaBuffer.load, or by the load of io.py when io
command_load(io) ==
    /\ ~registered
    /\ file.exists
    /\ hist.loads < MaxLoads
    /\ initialized' = TRUE
    /\ IF ~file.valid \/ file.version # 1
       THEN /\ hist' = [Called("load", IF ~file.valid THEN "JSONDecodeError"
                                       ELSE "MagmaException")
                          EXCEPT !.loads = @ + 1]
            /\ UNCHANGED <<registered, state, inbox, heap, spans, outputs, queued_outputs,
                           current_output, selected_cell, should_open_display_window,
                           updating_interface, display_window, kernel>>
       ELSE \E fits \in BOOLEAN :
            LET r == load(file, io)
                mb == IF r.exc = "MagmaIOError" THEN MagmaBuffer_init
                      ELSE IF r.exc # "" THEN [MagmaBuffer_init EXCEPT !.outputs = r.outputs]
                      ELSE update_interface([MagmaBuffer_init EXCEPT !.outputs = r.outputs],
                                            r.spans, cursor, fits)
            IN  /\ registered' = (r.exc # "MagmaIOError")
                /\ spans' = r.spans
                /\ heap' = r.heap
                /\ SetMB(mb)
                /\ state' = RuntimeState_STARTING
                /\ inbox' = <<>>
                /\ kernel' = IF r.exc = "MagmaIOError"
                             THEN JupyterRuntime_deinit(JupyterRuntime_init(kernel))
                             ELSE JupyterRuntime_init(kernel)
                /\ hist' = [Called("load", IF r.exc = "MagmaIOError" THEN "MagmaException"
                                           ELSE IF r.exc # "" THEN r.exc ELSE mb.exc)
                              EXCEPT !.loads = @ + 1,
                                     !.drained = @ \o [i \in 1..(Len(r.heap) - Len(heap))
                                                         |-> <<>>],
                                     !.ran = @ \o [i \in 1..(Len(r.spans) - Len(spans))
                                                     |-> 0]]
    /\ UNCHANGED <<cursor, options, periphery, modules, file>>

\* :MagmaLoad as __init__.py defines it
MagmaLoad == command_load(FALSE)

\* :MagmaLoad with the load of io.py
IoLoad == command_load(TRUE)

\* the timer calls MagmaTick: MagmaBuffer.tick
Tick ==
    /\ registered
    /\ \E ready \in Ready, fits \in Fits :
        LET mb1 == check_if_done_running(MB, heap)
            r == JupyterRuntime_tick(mb1.current_output, ready)
            mb2 == IF r.exc = "" /\ r.did
                   THEN update_interface(mb1, spans, cursor, fits)
                   ELSE mb1
        IN  /\ SetMB(mb2)
            /\ heap' = r.heap
            /\ state' = r.state
            /\ inbox' = r.inbox
            /\ hist' = [Called("tick", IF r.exc # "" THEN r.exc ELSE mb2.exc) EXCEPT
                          !.did = r.did, !.ref = mb1.current_output, !.seen = r.seen,
                          !.pre_state = state, !.pre_empty = (inbox = <<>>),
                          !.notified = /\ r.exc = "" /\ mb2.exc = ""
                                       /\ ~is_ready(state) /\ is_ready(r.state),
                          !.drained = IF mb1.current_output = None THEN @
                                      ELSE [@ EXCEPT ![mb1.current_output] = @ \o r.seen]]
    /\ UNCHANGED <<initialized, registered, spans, cursor, options, periphery, modules, kernel, file>>

\* a JupyterRuntime.interrupt that puts the session back to STARTING
JupyterRuntime_interrupt_starting(st) == RuntimeState_STARTING
\* JupyterRuntime.interrupt: kernel_manager.interrupt_kernel() signals the kernel
\* process; the state of the session after it
JupyterRuntime_interrupt(st) == st

\* MagmaBuffer.interrupt
Interrupt ==
    /\ registered
    /\ state' = JupyterRuntime_interrupt(state)
    /\ hist' = Called("interrupt", "")
    /\ UNCHANGED <<initialized, registered, inbox, heap, spans, outputs, queued_outputs,
                   current_output, selected_cell, should_open_display_window,
                   updating_interface, display_window, cursor, options, periphery, modules,
                   kernel, file>>

\* :MagmaRestart and :MagmaRestart! (MagmaBuffer.restart)
Restart ==
    /\ registered
    /\ \E delete_outputs \in BOOLEAN :
        /\ outputs' = IF delete_outputs THEN <<>> ELSE outputs
        /\ hist' = Called(IF delete_outputs THEN "restart!" ELSE "restart", "")
    /\ state' = RuntimeState_STARTING
    /\ UNCHANGED <<initialized, registered, inbox, heap, spans, queued_outputs, current_output,
                   selected_cell, should_open_display_window, updating_interface,
                   display_window, cursor, options, periphery, modules, kernel, file>>

----------------------------------------------------------------------------
(* The canvases (images.py). screen is what the terminal shows: the set of    *)
(* <<identifier, coordinates>> of the images displayed.                        *)

\* the image identifiers (checksums) and the coordinates <<x, y, width, height>>
\* of SpecCanvas; every width and height is positive
Identifiers == {"a", "b"}
Coordinates == {<<0, 1, 4, 2>>, <<0, 5, 4, 2>>}

\* adds between two clears in SpecCanvas
MaxAdds == 2

\* NoCanvas, and the canvas before Magma._initialize has chosen one
NoCanvas ==
    [provider |-> "none", images |-> <<>>, visible |-> {}, to_make_visible |-> {},
     to_make_invisible |-> {}, screen |-> {}]

\* get_canvas_given_provider: UeberzugCanvas() or Kitty(nvim). images is
\* Kitty.images as a sequence of <<identifier, coordinates>> pairs, and
\* UeberzugCanvas.identifiers as pairs <<key, key>>, the key holding the
\* coordinates
get_canvas_given_provider(name) == [NoCanvas EXCEPT !.provider = name]

\* UeberzugCanvas.clear and Kitty.clear
Canvas_clear(c) ==
    [c EXCEPT !.to_make_invisible = @ \cup c.visible, !.visible = {}]

\* UeberzugCanvas.add_image, width and height positive: the placement is
\* looked up or created under identifier-pid-x-y-width-height
UeberzugCanvas_add_image(c, identifier, xywh) ==
    LET key == <<identifier, xywh>>
    IN  [c EXCEPT !.images = IF dict_has(@, key) THEN @ ELSE dict_set(@, key, key),
                  !.to_make_visible = @ \cup {key}]

\* UeberzugCanvas.present
UeberzugCanvas_present(c) ==
    LET hide == c.to_make_invisible \ c.to_make_visible
    IN  [c EXCEPT !.screen = (@ \ hide) \cup c.to_make_visible,
                  !.visible = @ \cup c.to_make_visible,
                  !.to_make_invisible = {},
                  !.to_make_visible = {}]

\* Kitty.add_image: a KittyImage is created with row, col, width and height for
\* an identifier not yet in images; for one that is, only path is assigned
Kitty_add_image(c, identifier, xywh) ==
    [c EXCEPT !.images = IF dict_has(@, identifier) THEN @
                         ELSE dict_set(@, identifier, xywh),
              !.to_make_visible = @ \cup {identifier}]

\* KittyImage.hide (a=d deletes the image) and KittyImage.show (a=T puts the
\* image of that id at the image's row and col)
KittyImage_hide(screen, identifier) == {p \in screen : p[1] # identifier}
KittyImage_show(screen, identifier, xywh) ==
    KittyImage_hide(screen, identifier) \cup {<<identifier, xywh>>}

\* Kitty.present: the images to hide are hidden, the images to show that are
\* not also to hide are shown
Kitty_present(c) ==
    LET to_work_on == c.to_make_visible \ (c.to_make_visible \cap c.to_make_invisible)
        hide == c.to_make_invisible \ c.to_make_visible
        hidden == {p \in c.screen : p[1] \notin hide}
        shown == {<<i, dict_get(c.images, i)>> : i \in to_work_on}
    IN  [c EXCEPT !.screen = {p \in hidden : p[1] \notin to_work_on} \cup shown,
                  !.visible = @ \cup c.to_make_visible,
                  !.to_make_invisible = {},
                  !.to_make_visible = {}]

\* what the actions of the canvas leave alone
CanvasFrame ==
    UNCHANGED <<initialized, registered, state, inbox, heap, spans, outputs, queued_outputs,
                current_output, selected_cell, should_open_display_window,
                updating_interface, display_window, cursor, options, modules, kernel, file,
                consumer, buffers, live, tempfiles, allocated_files>>

\* Magma._initialize: the canvas of the configured image provider is created
CanvasInit ==
    /\ canvas.provider = "none"
    /\ \E name \in {"ueberzug", "kitty"} : canvas' = get_canvas_given_provider(name)
    /\ hist' = Called("canvas_init", "")
    /\ CanvasFrame

\* canvas.clear(); hist.pre_empty: no image was waiting to be made visible
CanvasClear ==
    /\ canvas.provider # "none"
    /\ canvas' = Canvas_clear(canvas)
    /\ hist' = [Called("clear", "") EXCEPT !.pre_empty = (canvas.to_make_visible = {})]
    /\ CanvasFrame

\* canvas.add_image(path, identifier, x, y, width, height); hist.seen lists the
\* images added since the last clear
CanvasAddImage ==
    /\ canvas.provider # "none"
    /\ Len(hist.seen) < MaxAdds
    /\ \E identifier \in Identifiers, xywh \in Coordinates :
        /\ canvas' = IF canvas.provider = "kitty"
                     THEN Kitty_add_image(canvas, identifier, xywh)
                     ELSE UeberzugCanvas_add_image(canvas, identifier, xywh)
        /\ hist' = [hist EXCEPT !.op = "add_image",
                                !.seen = Append(@, <<identifier, xywh>>)]
    /\ CanvasFrame

\* canvas.present(); hist.did: presented since the last clear
CanvasPresent ==
    /\ canvas.provider # "none"
    /\ canvas' = IF canvas.provider = "kitty" THEN Kitty_present(canvas)
                 ELSE UeberzugCanvas_present(canvas)
    /\ hist' = [hist EXCEPT !.op = "present", !.did = TRUE]
    /\ CanvasFrame

----------------------------------------------------------------------------
(* Specifications. *)

Options == [automatically_open_output : BOOLEAN, show_mimetype_debug : BOOLEAN]

\* the surroundings at rest
InitPeriphery ==
    /\ consumer = "idle"
    /\ buffers = [doc \in Docs |-> None]
    /\ live = <<>>
    /\ tempfiles = {}
    /\ allocated_files = <<>>
    /\ canvas = NoCanvas

\* the plugin after construction: no document has a session
Init ==
    /\ InitPeriphery
    /\ initialized = FALSE
    /\ registered = FALSE
    /\ state = RuntimeState_STARTING
    /\ inbox = <<>>
    /\ heap = <<>>
    /\ spans = <<>>
    /\ outputs = <<>>
    /\ queued_outputs = <<>>
    /\ current_output = None
    /\ selected_cell = None
    /\ should_open_display_window = FALSE
    /\ updating_interface = FALSE
    /\ display_window = FALSE
    /\ cursor = <<0, 0>>
    /\ options \in {o \in Options : ~o.show_mimetype_debug}
    /\ modules = Modules
    /\ kernel = [received |-> 0, sent |-> 0, alive |-> 0]
    /\ file = NoFile
    /\ hist = hist_init

Next ==
    \/ MagmaInit
    \/ MagmaDeinit
    \/ NoSession
    \/ OperatorfuncUnsupported
    \/ Evaluate
    \/ Reevaluate
    \/ Delete
    \/ CursorMoved
    \/ Tick
    \/ Restart
    \/ KernelReply

Spec == Init /\ [][Next]_vars

\* the commands of a session that is saved to a file and loaded from it, the
\* cursor staying where it is
NextIO ==
    \/ MagmaInit
    \/ MagmaDeinit
    \/ Evaluate
    \/ Reevaluate
    \/ Delete
    \/ Tick
    \/ KernelReply
    \/ MagmaSave
    \/ MagmaLoad

SpecIO == Init /\ [][NextIO]_vars

\* a session whose queue holds n executions, each an Output(None) on hold, and
\* whose kernel may send anything
InitRuntime ==
    /\ InitPeriphery
    /\ initialized = TRUE
    /\ registered = TRUE
    /\ state = RuntimeState_STARTING
    /\ inbox = <<>>
    /\ \E n \in 0..MaxOutputs :
        /\ heap = [i \in 1..n |-> Output(<<>>)]
        /\ queued_outputs = [i \in 1..n |-> i]
        /\ hist = [hist_init EXCEPT !.drained = [i \in 1..n |-> <<>>]]
    /\ spans = <<>>
    /\ outputs = <<>>
    /\ current_output = None
    /\ selected_cell = None
    /\ should_open_display_window = FALSE
    /\ updating_interface = FALSE
    /\ display_window = FALSE
    /\ cursor = <<0, 0>>
    /\ options \in {o \in Options : o.automatically_open_output}
    /\ modules = Modules
    /\ kernel = [received |-> 0, sent |-> 0, alive |-> 1]
    /\ file = NoFile

NextRuntime ==
    \/ Tick
    \/ Arrive

SpecRuntime == InitRuntime /\ [][NextRuntime]_vars

\* the same session with a kernel that sends output, deferred clears and
\* messages of the ignored kinds
NextIgnored ==
    \/ Tick
    \/ ArriveIgnorable

SpecIgnored == InitRuntime /\ [][NextIgnored]_vars

\* the same session with a kernel that may send any message, and restarts
NextRuntimeAny ==
    \/ Tick
    \/ ArriveAny
    \/ Restart

SpecRuntimeAny == InitRuntime /\ [][NextRuntimeAny]_vars

\* a session whose one execution is queued and whose inbox holds one message
\* with a bundle, under any set of importable modules
InitChunk ==
    /\ InitPeriphery
    /\ initialized = TRUE
    /\ registered = TRUE
    /\ state = RuntimeState_STARTING
    /\ \E b \in Bundles : inbox \in {<<ExecuteResult(b)>>, <<DisplayData(b)>>}
    /\ heap = <<Output(<<>>)>>
    /\ queued_outputs = <<1>>
    /\ hist = [hist_init EXCEPT !.drained = << <<>> >>]
    /\ spans = <<>>
    /\ outputs = <<>>
    /\ current_output = None
    /\ selected_cell = None
    /\ should_open_display_window = FALSE
    /\ updating_interface = FALSE
    /\ display_window = FALSE
    /\ cursor = <<0, 0>>
    /\ options \in Options
    /\ modules \in SUBSET Modules
    /\ kernel = [received |-> 1, sent |-> 1, alive |-> 1]
    /\ file = NoFile

NextChunk == Tick

SpecChunk == InitChunk /\ [][NextChunk]_vars

\* the cells a session file may hold
Cells ==
    [span : Regions, execution_count : {<<>>, <<1>>},
     status : {OutputStatus_HOLD, OutputStatus_DONE, BadStatus}, success : {TRUE},
     chunks : {<<>>, <<[data |-> BundleText, metadata |-> <<>>]>>}]

\* the session files that :MagmaLoad may be given: JSON documents with every
\* key, of version 1 or not, written for this document or for another, whose
\* cells may hold a null execution_count or an unknown status
LoadFiles ==
    [exists : {TRUE}, valid : {TRUE}, version : {1, 2},
     content_checksum : {get_content_checksum, "md5 of another document"},
     cells : {<<>>} \cup {<<c>> : c \in Cells} \cup {<<c, d>> : c \in Cells, d \in Cells}]

\* the plugin after construction, a session file lying at the path
InitLoad ==
    /\ InitPeriphery
    /\ initialized = FALSE
    /\ registered = FALSE
    /\ state = RuntimeState_STARTING
    /\ inbox = <<>>
    /\ heap = <<>>
    /\ spans = <<>>
    /\ outputs = <<>>
    /\ queued_outputs = <<>>
    /\ current_output = None
    /\ selected_cell = None
    /\ should_open_display_window = FALSE
    /\ updating_interface = FALSE
    /\ display_window = FALSE
    /\ cursor = <<0, 0>>
    /\ options \in Options
    /\ modules = Modules
    /\ kernel = [received |-> 0, sent |-> 0, alive |-> 0]
    /\ file \in LoadFiles
    /\ hist = hist_init

NextLoad ==
    \/ MagmaLoad
    \/ IoLoad
    \/ MagmaDeinit

SpecLoad == InitLoad /\ [][NextLoad]_vars

\* the positions of a document of two lines
Grid == (0..1) \X (0..2)

\* a session that loaded one cell, of any begin and end, the cursor anywhere
InitSpan ==
    /\ InitPeriphery
    /\ initialized = TRUE
    /\ registered = TRUE
    /\ state = RuntimeState_STARTING
    /\ inbox = <<>>
    /\ heap = <<load_output([execution_count |-> <<1>>, status |-> OutputStatus_DONE,
                             success |-> TRUE, chunks |-> <<>>])>>
    /\ spans \in {<<[begin |-> b, end |-> e]>> : b \in Grid, e \in Grid}
    /\ outputs = << <<1, 1>> >>
    /\ queued_outputs = <<>>
    /\ current_output = None
    /\ selected_cell = None
    /\ should_open_display_window = FALSE
    /\ updating_interface = FALSE
    /\ display_window = FALSE
    /\ cursor \in Grid
    /\ options \in Options
    /\ modules = Modules
    /\ kernel = [received |-> 0, sent |-> 0, alive |-> 1]
    /\ file = NoFile
    /\ hist = [hist_init EXCEPT !.loads = 1, !.drained = << <<>> >>, !.ran = <<0>>]

NextSpan == UpdateInterface

SpecSpan == InitSpan /\ [][NextSpan]_vars

\* a session of a focused document that is never shut down nor restarted, whose
\* timer keeps calling MagmaTick and whose kernel keeps answering
NextLive ==
    \/ MagmaInit
    \/ Evaluate
    \/ Reevaluate
    \/ Tick
    \/ KernelReply

SpecLive == Init /\ [][NextLive]_vars /\ WF_vars(Tick) /\ WF_vars(KernelReply)

\* the session of a document with every operation of its MagmaBuffer, interrupt
\* included
NextFrame ==
    \/ MagmaInit
    \/ Evaluate
    \/ Reevaluate
    \/ Delete
    \/ CursorMoved
    \/ Interrupt
    \/ Tick
    \/ Restart
    \/ KernelReply

SpecFrame == Init /\ [][NextFrame]_vars

----------------------------------------------------------------------------
(* The inbound queue of JupyterAPIClient (jupyter_server_api.py): the receive *)
(* thread puts, get_iopub_msg is the one reader. inbox is _recv_queue.        *)

\* messages the receive thread reads from the socket in SpecQueue
MaxWire == 8

\* queue.Queue.put, .empty and .get of the unbounded _recv_queue; each holds
\* the queue's lock
Queue_put(q, item) == Append(q, item)
Queue_empty(q) == q = <<>>
\* a get that hands out the newest item
Queue_get_newest(q) == [item |-> q[Len(q)], queue |-> SubSeq(q, 1, Len(q) - 1)]
Queue_get(q) == [item |-> Head(q), queue |-> Tail(q)]

\* one turn of the loop of _recv_message: the i-th message of the socket is
\* put into the queue
recv_message ==
    /\ registered
    /\ kernel.sent < MaxWire
    /\ inbox' = Queue_put(inbox, ExecuteInput(kernel.sent + 1))
    /\ kernel' = [kernel EXCEPT !.sent = @ + 1]
    /\ UNCHANGED <<initialized, registered, state, heap, spans, outputs, queued_outputs,
                   current_output, selected_cell, should_open_display_window,
                   updating_interface, display_window, cursor, options, modules, file, hist,
                   consumer, buffers, live, tempfiles, allocated_files, canvas>>

\* get_iopub_msg, `if self._recv_queue.empty(): raise EmptyQueueException`
get_iopub_msg_empty ==
    /\ registered
    /\ consumer = "idle"
    /\ IF Queue_empty(inbox)
       THEN /\ consumer' = "idle"
            /\ hist' = [hist EXCEPT !.op = "get_iopub_msg", !.exc = "EmptyQueueException"]
       ELSE /\ consumer' = "get"
            /\ hist' = hist
    /\ UNCHANGED <<initialized, registered, state, inbox, heap, spans, outputs,
                   queued_outputs, current_output, selected_cell,
                   should_open_display_window, updating_interface, display_window, cursor,
                   options, modules, kernel, file, buffers, live, tempfiles, allocated_files,
                   canvas>>

\* get_iopub_msg, `response = self._recv_queue.get()`, which waits while the
\* queue is empty, and `return response`
get_iopub_msg_get ==
    /\ registered
    /\ consumer = "get"
    /\ ~Queue_empty(inbox)
    /\ LET r == Queue_get(inbox)
       IN  /\ inbox' = r.queue
           /\ hist' = [hist EXCEPT !.op = "get_iopub_msg", !.exc = "",
                                   !.seen = Append(@, r.item)]
    /\ consumer' = "idle"
    /\ UNCHANGED <<initialized, registered, state, heap, spans, outputs, queued_outputs,
                   current_output, selected_cell, should_open_display_window,
                   updating_interface, display_window, cursor, options, modules, kernel,
                   file, buffers, live, tempfiles, allocated_files,
                   canvas>>

\* a session whose queue is empty, no call of get_iopub_msg under way
InitQueue ==
    /\ InitRuntime
    /\ heap = <<>>

NextQueue ==
    \/ recv_message
    \/ get_iopub_msg_empty
    \/ get_iopub_msg_get

SpecQueue == InitQueue /\ [][NextQueue]_vars

----------------------------------------------------------------------------
(* The registry of sessions (Magma.buffers, __init__.py) over several          *)
(* documents. A MagmaBuffer is an index of live; doc is the current buffer.    *)

\* Magma._initialize_buffer: a MagmaBuffer is created and stored for doc
initialize_buffer(bufs, lv, doc) ==
    [buffers |-> [bufs EXCEPT ![doc] = Len(lv) + 1], live |-> Append(lv, TRUE)]

\* MagmaBuffer.deinit of every MagmaBuffer of the set S
deinit_all(lv, S) == [s \in 1..Len(lv) |-> lv[s] /\ s \notin S]

\* Magma._deinit_buffer: magma.deinit(), del self.buffers[magma.buffer.number]
deinit_buffer(bufs, lv, doc) ==
    [buffers |-> [bufs EXCEPT ![doc] = None], live |-> deinit_all(lv, {bufs[doc]})]

\* what the actions of the registry leave alone
RegistryFrame ==
    UNCHANGED <<initialized, registered, state, inbox, heap, spans, outputs, queued_outputs,
                current_output, selected_cell, should_open_display_window,
                updating_interface, display_window, cursor, options, modules, kernel, file,
                consumer, tempfiles, allocated_files, canvas>>

\* :MagmaInit in document doc
command_init ==
    /\ Len(live) < MaxSessions
    /\ \E doc \in Docs :
        LET r == initialize_buffer(buffers, live, doc)
        IN  buffers' = r.buffers /\ live' = r.live
    /\ hist' = Called("init", "")
    /\ RegistryFrame

\* :MagmaDeinit in document doc
command_deinit ==
    /\ \E doc \in Docs :
        IF buffers[doc] = None
        THEN /\ hist' = Called("deinit", "MagmaException")
             /\ UNCHANGED <<buffers, live>>
        ELSE LET r == deinit_buffer(buffers, live, doc)
             IN  /\ buffers' = r.buffers /\ live' = r.live
                 /\ hist' = Called("deinit", "")
    /\ RegistryFrame

\* :MagmaLoad in document doc; outcome: the file loads ("ok"), fails the
\* version or kernel test before a MagmaBuffer exists ("header"), or makes
\* magma.load raise MagmaIOError ("MagmaIOError") or another error ("ValueError")
command_load_into ==
    /\ Len(live) < MaxSessions
    /\ \E doc \in Docs, outcome \in {"ok", "header", "MagmaIOError", "ValueError"} :
        IF buffers[doc] # None \/ outcome = "header"
        THEN /\ hist' = Called("load", "MagmaException")
             /\ UNCHANGED <<buffers, live>>
        ELSE LET r == initialize_buffer(buffers, live, doc)
                 d == deinit_buffer(r.buffers, r.live, doc)
             IN  IF outcome = "MagmaIOError"
                 THEN /\ buffers' = d.buffers /\ live' = d.live
                      /\ hist' = Called("load", "MagmaException")
                 ELSE /\ buffers' = r.buffers /\ live' = r.live
                      /\ hist' = Called("load", IF outcome = "ok" THEN "" ELSE outcome)
    /\ RegistryFrame

\* autocmd BufUnload of document doc: MagmaOnBufferUnload
function_on_buffer_unload ==
    /\ \E doc \in Docs :
        IF buffers[doc] = None
        THEN UNCHANGED <<buffers, live>>
        ELSE LET r == deinit_buffer(buffers, live, doc)
             IN  buffers' = r.buffers /\ live' = r.live
    /\ hist' = Called("buffer_unload", "")
    /\ RegistryFrame

\* autocmd ExitPre: MagmaOnExitPre, Magma._deinitialize
function_on_exit_pre ==
    /\ live' = deinit_all(live, {buffers[doc] : doc \in Docs})
    /\ buffers' = buffers
    /\ hist' = Called("exit_pre", "")
    /\ RegistryFrame

NextRegistry ==
    \/ command_init
    \/ command_deinit
    \/ command_load_into
    \/ function_on_buffer_unload
    \/ function_on_exit_pre

SpecRegistry == Init /\ [][NextRegistry]_vars

----------------------------------------------------------------------------
(* The temp files of the image chunks (runtime.py, outputchunks.py). *)

\* temp files a session of SpecAlloc creates
MaxFiles == 4

\* _append_chunk of an image/png bundle to the output ref: _from_image_png
\* writes the decoded data in the with block of alloc_file (write_ok: it raises
\* nothing), then _to_image_chunk opens the file (open_ok: PIL reads it)
AppendImageChunk ==
    /\ registered
    /\ Cardinality(tempfiles \cup Range(allocated_files)) < MaxFiles
    /\ \E ref \in 1..Len(heap), write_ok \in BOOLEAN, open_ok \in BOOLEAN :
        LET r == alloc_file(tempfiles, allocated_files, write_ok)
        IN  /\ tempfiles' = r.tempfiles
            /\ allocated_files' = r.allocated_files
            /\ heap' = IF write_ok /\ open_ok
                       THEN [heap EXCEPT ![ref].chunks =
                               Append(@, ImageOutputChunk(<<"tmp", ToString(r.path), ".png">>))]
                       ELSE heap
            /\ hist' = Called("append_chunk", IF ~write_ok THEN "binascii.Error"
                                              ELSE IF ~open_ok THEN "UnidentifiedImageError"
                                              ELSE "")
    /\ UNCHANGED <<initialized, registered, state, inbox, spans, outputs, queued_outputs,
                   current_output, selected_cell, should_open_display_window,
                   updating_interface, display_window, cursor, options, modules, kernel, file,
                   consumer, buffers, live, canvas>>

\* a session with one output and no temp file yet
InitAlloc ==
    /\ InitRuntime
    /\ Len(heap) = 1

NextAlloc ==
    \/ AppendImageChunk
    \/ MagmaDeinit

SpecAlloc == InitAlloc /\ [][NextAlloc]_vars

NextCanvas ==
    \/ CanvasInit
    \/ CanvasClear
    \/ CanvasAddImage
    \/ CanvasPresent

SpecCanvas == Init /\ [][NextCanvas]_vars

----------------------------------------------------------------------------
(* Properties. *)

Last(q) == q[Len(q)]

\* the Output ids
Outs == 1..Len(heap)

\* the message sequences of the two standard executions
ResultRun == <<ExecuteInput(1), ExecuteResult(BundleText), Status("idle")>>
ErrorRun == <<ExecuteInput(1), Error(<<"ValueError">>, <<"bad">>, << <<"line1">> >>), Status("idle")>>

\* C1: an execution that leaves the pending queue becomes the current execution,
\* in the order of the run calls: the head of the queue, an Output, is current
\* right after it is dequeued.
C1_DequeuedBecomesCurrent ==
    [][(registered /\ hist'.op \notin {"init", "deinit", "load"}
        /\ Len(queued_outputs') < Len(queued_outputs))
       => (current_output' = Head(queued_outputs) /\ current_output' # None)]_vars

\* C2: after run on a span that already has an output, the span maps to a
\* brand-new output: HOLD, execution_count unknown, success true, no chunks.
C2_RerunMapsToNewOutput ==
    (registered /\ hist.op = "reevaluate" /\ hist.span # None)
    => /\ dict_has(outputs, hist.span)
       /\ dict_get(outputs, hist.span) # None
       /\ heap[dict_get(outputs, hist.span)] = Output(<<>>)

\* C3: the status of every output only moves forward along HOLD, RUNNING, DONE.
C3_StatusMovesForward ==
    [][\A o \in Outs : heap'[o].status >= heap[o].status]_vars

\* C3 witness: a DONE output into which a further message was drained
C3_DrainedAfterDone ==
    \E o \in Outs :
        /\ heap[o].status = OutputStatus_DONE
        /\ Len(hist.drained[o]) >= 2
        /\ Last(hist.drained[o]) = Status("busy")

\* C4 as stated: execute_input{n}, execute_result{text/plain}, status idle drained
\* into a fresh output give execution_count n, DONE, success and exactly one
\* text chunk holding the payload.
C4_ExactlyOneTextChunk ==
    \A o \in Outs :
        hist.drained[o] = ResultRun
        => /\ heap[o].execution_count = <<1>>
           /\ heap[o].status = OutputStatus_DONE
           /\ heap[o].success
           /\ Len(heap[o].chunks) = 1
           /\ heap[o].chunks[1].text = <<"2", "\n">>

\* C4: execute_input{n}, execute_result{text/plain}, status idle drained into a
\* fresh output give execution_count n, DONE, success and one text chunk holding
\* the payload and a newline, carrying the bundle; with show_mimetype_debug set
\* a chunk listing the mimetypes precedes it.
C4_ResultRun ==
    \A o \in Outs :
        hist.drained[o] = ResultRun
        => /\ heap[o].execution_count = <<1>>
           /\ heap[o].status = OutputStatus_DONE
           /\ heap[o].success
           /\ Len(heap[o].chunks) = IF options.show_mimetype_debug THEN 2 ELSE 1
           /\ Last(heap[o].chunks) =
                [kind |-> "TextLn", text |-> <<"2", "\n">>,
                 jupyter_data |-> <<BundleText>>, jupyter_metadata |-> << <<>> >>]
           /\ options.show_mimetype_debug
              => heap[o].chunks[1] = MimetypesOutputChunk(<<"text/plain">>)

\* C4 witness: the three messages were drained with show_mimetype_debug set
C4_ResultRunDrainedWithDebug ==
    options.show_mimetype_debug /\ \E o \in Outs : hist.drained[o] = ResultRun

RECURSIVE claimed_chunks(_, _, _)
\* the chunks of an output after the messages msgs when a clear_output with
\* wait is deferred until the next message that brings a chunk
claimed_chunks(msgs, chunks, pending) ==
    IF msgs = <<>> THEN chunks
    ELSE LET m == Head(msgs)
             new == tick_one(Output(<<>>), RuntimeState_IDLE, m).output.chunks
         IN  IF m.msg_type = "clear_output"
             THEN IF m.wait THEN claimed_chunks(Tail(msgs), chunks, TRUE)
                  ELSE claimed_chunks(Tail(msgs), <<>>, FALSE)
             ELSE IF new # <<>>
                  THEN claimed_chunks(Tail(msgs), (IF pending THEN <<>> ELSE chunks) \o new,
                                      FALSE)
                  ELSE claimed_chunks(Tail(msgs), chunks, pending)

\* C6: after clear_output with wait, the chunks of the output are kept until the
\* next chunk arrives, and are then replaced starting from that chunk.
C6_ClearWaitsForNextChunk ==
    \A o \in Outs : heap[o].chunks = claimed_chunks(hist.drained[o], <<>>, FALSE)

\* C7 as stated: a tick made while the inbox is empty reports did_stuff = False.
C7_EmptyInboxNoWork ==
    (hist.op = "tick" /\ hist.pre_empty) => ~hist.did

\* C7: a tick made while the inbox is empty drains nothing, raises nothing, and
\* reports did_stuff = True exactly when it found the session STARTING and left
\* it ready.
C7_EmptyInboxWorkOnlyWhenReadied ==
    (hist.op = "tick" /\ hist.pre_empty)
    => /\ hist.seen = <<>>
       /\ hist.exc = ""
       /\ hist.did = (hist.pre_state = RuntimeState_STARTING /\ state # RuntimeState_STARTING)
       /\ state \in {hist.pre_state, RuntimeState_IDLE}

\* C7 witness: a tick with an empty inbox and a current output reported work
C7_EmptyInboxTickReadied ==
    hist.op = "tick" /\ hist.pre_empty /\ hist.did /\ hist.ref # None

\* C8: run(code, span) stores a new HOLD output under span and queues it: it is
\* the current execution or waits in the pending queue.
C8_RunStoresHoldOutput ==
    (registered /\ hist.op = "evaluate" /\ hist.exc = "")
    => /\ dict_has(outputs, hist.span)
       /\ dict_get(outputs, hist.span) # None
       /\ heap[dict_get(outputs, hist.span)].status = OutputStatus_HOLD
       /\ \/ current_output = dict_get(outputs, hist.span)
          \/ \E i \in 1..Len(queued_outputs) :
                queued_outputs[i] = dict_get(outputs, hist.span)

\* the registered spans that contain pos
Containing(pos) ==
    {outputs[i][1] : i \in {j \in 1..Len(outputs) : Span_contains(spans[outputs[j][1]], pos)}}

\* C9 as stated: select(pos) is the registered span containing pos that was
\* created most recently, none when no registered span contains pos.
C9_SelectsMostRecentlyCreated ==
    \A pos \in Positions :
        LET sel == get_selected_span(spans, outputs, pos)
        IN  IF Containing(pos) = {} THEN sel = None
            ELSE sel \in Containing(pos) /\ \A c \in Containing(pos) : c <= sel

\* C9: select(pos) is the registered span containing pos that was run most
\* recently (evaluated or re-evaluated), none when no registered span contains pos.
C9_SelectsMostRecentlyRun ==
    \A pos \in Positions :
        LET sel == get_selected_span(spans, outputs, pos)
        IN  IF Containing(pos) = {} THEN sel = None
            ELSE sel \in Containing(pos)
                 /\ \A c \in Containing(pos) : hist.ran[c] <= hist.ran[sel]

\* C9 witness: two registered spans contain the cursor and the older one, run
\* again after the newer one, is selected
C9_OlderSpanRerunSelected ==
    /\ registered
    /\ Cardinality(Containing(cursor)) = 2
    /\ \E c \in Containing(cursor) : c > get_selected_span(spans, outputs, cursor)

\* C10: save then load against the unmodified document succeeds and reproduces
\* the coordinates, the status and the mime-bundles of every entry.
C10_SaveLoadRoundTrip ==
    (hist.op = "load" /\ hist.saved # <<>>)
    => /\ hist.exc = ""
       /\ registered
       /\ [i \in 1..Len(outputs) |-> EntryView(spans, heap, outputs[i])] = hist.saved

C16_StartingSubmitNotReady ==
    [][(hist'.runs = hist.runs + 1 /\ state = RuntimeState_STARTING)
          => /\ hist'.exc = "NotReady"
             /\ kernel'.received = kernel.received]_vars

\* a step of a command that met no session, no cell under the cursor or an
\* unsupported kind of selection
UserErrorStep ==
    /\ hist' # hist
    /\ \/ hist'.op \in {"deinit", "evaluate", "reevaluate", "delete", "show_output",
                        "save", "operatorfunc"}
          /\ hist'.exc = "MagmaException"
       \/ hist'.op = "delete" /\ hist'.exc = "" /\ hist'.span = None

\* what such a command must leave alone: registry, outputs, queue, current
\* execution, the outputs themselves and the session state
LedgerUnchanged ==
    /\ registered' = registered
    /\ spans' = spans
    /\ outputs' = outputs
    /\ queued_outputs' = queued_outputs
    /\ current_output' = current_output
    /\ heap' = heap
    /\ state' = state
    /\ kernel' = kernel

C13_ShutdownTerminatesKernel ==
    (hist.op = "deinit" /\ hist.exc = "") => kernel.alive = 0

\* C17: whatever messages arrive, a tick completes without a failure that is
\* not caught and reported as a message of the plugin.
C17_TickNeverRaises ==
    hist.op = "tick" => hist.exc \in {"", "MagmaException"}

\* C14: a restart that deletes the outputs leaves the ledger empty: no outputs,
\* nothing queued and no current execution; every restart sets STARTING.
C14_RestartEmptiesLedger ==
    /\ hist.op \in {"restart", "restart!"} => state = RuntimeState_STARTING
    /\ hist.op = "restart!"
       => /\ outputs = <<>>
          /\ queued_outputs = <<>>
          /\ current_output = None

\* the priority order of the mimetypes as the specification states it
PriorityOrder ==
    <<"image/png", "image/svg+xml", "application/vnd.plotly.v1+json", "text/latex",
      "text/plain">>

\* the renderers tier i needs, every image needing the image library
Renderers(i) ==
    IF i = 1 THEN {"PIL"}
    ELSE IF i = 2 THEN {"cairosvg", "PIL"}
    ELSE IF i = 3 THEN {"plotly", "PIL"}
    ELSE IF i = 4 THEN {"pnglatex", "PIL"}
    ELSE {}

\* the tiers of a bundle that are present and whose renderers are available
UsableTiers(data) ==
    {i \in 1..Len(PriorityOrder) :
        (\E j \in 1..Len(data) : data[j][1] = PriorityOrder[i]) /\ Renderers(i) \subseteq modules}

Malformed(data) ==
    \/ data.version # 1
    \/ \E i \in 1..Len(data.cells) :
          \/ data.cells[i].execution_count = <<>>
          \/ data.cells[i].status \notin 0..2

\* C12: a load of a file with a malformed field ends with a reported load error
\* and with no session left registered for the document.
C12_MalformedFileFails ==
    (hist.op = "load" /\ Malformed(file))
    => /\ hist.exc = "MagmaException"
       /\ ~registered

\* the Output the ledger value shows: that of the OutputBuffer, or the value
Shown(value) == IF value < None THEN heap[None - value] ELSE heap[value]

\* C19: every output recreated by a load is marked stale in the ledger entry
\* shown for its span.
C19_LoadedOutputsStale ==
    (hist.op = "load" /\ registered)
    => \A i \in 1..Len(outputs) :
          outputs[i][2] # None /\ Shown(outputs[i][2]).old

\* C21: contains(s, p) holds exactly when begin(s) <= p and p < end(s) in the
\* lexicographic order of (line, column): the begin is included, the end is
\* excluded, and a span whose begin is its end contains no position. The span
\* of the single cell is the selected one exactly when it contains the cursor.
C21_ContainsHalfOpen ==
    hist.op = "update_interface"
    => LET b == spans[1].begin
           e == spans[1].end
           p == cursor
           begin_le_p == b[1] < p[1] \/ (b[1] = p[1] /\ b[2] <= p[2])
           p_lt_end == p[1] < e[1] \/ (p[1] = e[1] /\ p[2] < e[2])
       IN  /\ (selected_cell = 1) = (begin_le_p /\ p_lt_end)
           /\ Span_contains(spans[1], p) = (begin_le_p /\ p_lt_end)
           /\ b = e => selected_cell = None

\* C21 witness: the cursor is at the end of a span that holds other positions,
\* and the span is not selected
C21_CursorAtEndNotSelected ==
    /\ hist.op = "update_interface"
    /\ cursor = spans[1].end
    /\ spans[1].begin # spans[1].end
    /\ Span_contains(spans[1], spans[1].begin)
    /\ selected_cell = None

\* C22: the kernel answering the submissions in order, one block each, what the
\* k-th block carries is recorded in the output the k-th run created: a tick of
\* a ready session that finds messages of a block in the inbox drains them into
\* the current execution, an output created by a run.
C22_BlockRecordedInItsOutput ==
    (hist.op = "tick" /\ hist.exc = "" /\ ~hist.pre_empty /\ state # RuntimeState_STARTING)
    => /\ hist.ref # None
       /\ hist.seen # <<>>
       /\ \E i \in 1..Len(outputs) : outputs[i][2] = hist.ref

\* C23: once the status of an output is DONE, its chunks, its success flag and
\* its execution_count never change again.
C23_DoneOutputFrozen ==
    [][\A o \in Outs :
          heap[o].status = OutputStatus_DONE
          => /\ heap'[o].chunks = heap[o].chunks
             /\ heap'[o].success = heap[o].success
             /\ heap'[o].execution_count = heap[o].execution_count]_vars

\* C24: processing an execute_input message records its execution_count on the
\* output and advances the status of the output by one step: an output on HOLD
\* that was handed exactly one execute_input is RUNNING, one that was handed
\* two is DONE.
C24_ExecuteInputAdvancesStatus ==
    \A o \in Outs :
        /\ hist.drained[o] = <<ExecuteInput(1)>>
           => /\ heap[o].execution_count = <<1>>
              /\ heap[o].status = OutputStatus_RUNNING
        /\ hist.drained[o] = <<ExecuteInput(1), ExecuteInput(1)>>
           => /\ heap[o].execution_count = <<1>>
              /\ heap[o].status = OutputStatus_DONE

\* C25: a tick whose last message is status idle leaves the session IDLE and the
\* output it drained into DONE, whatever the status of the output was; a tick
\* whose last message is status busy leaves the session RUNNING (the BUSY of
\* the specification), and a status busy alone leaves the status of the output
\* as it was.
C25_StatusIdleAndBusy ==
    [][(hist'.op = "tick" /\ hist'.exc = "" /\ hist'.ref # None /\ hist'.seen # <<>>)
          => /\ Last(hist'.seen) = Status("idle")
                => /\ state' = RuntimeState_IDLE
                   /\ heap'[hist'.ref].status = OutputStatus_DONE
             /\ Last(hist'.seen) = Status("busy")
                => state' = RuntimeState_RUNNING
             /\ hist'.seen = <<Status("busy")>>
                => heap'[hist'.ref].status = heap[hist'.ref].status]_vars

\* C25 witness: a status idle was drained into an output that was DONE already
C25_IdleOnDoneOutput ==
    /\ hist.op = "tick"
    /\ hist.ref # None
    /\ hist.seen = <<Status("idle")>>
    /\ Len(hist.drained[hist.ref]) >= 2
    /\ hist.drained[hist.ref][1] = Status("idle")
    /\ heap[hist.ref].status = OutputStatus_DONE
    /\ state = RuntimeState_IDLE

\* C26: a drain call given an output reads the inbound messages one at a time,
\* in order, and stops as soon as the status of the output is DONE or the
\* queue is empty: it reads nothing when the output is DONE already, no message
\* after the one that made it DONE, and what it did not read stays queued.
C26_DrainStopsAtDone ==
    [][(hist'.op = "tick" /\ hist'.exc = "" /\ hist'.ref # None /\ kernel' = kernel
        /\ (hist'.did \/ state # RuntimeState_STARTING))
          => /\ inbox = hist'.seen \o inbox'
             /\ inbox' = <<>> \/ heap'[hist'.ref].status = OutputStatus_DONE
             /\ \A i \in 1..(Len(hist'.seen) - 1) : hist'.seen[i] # Status("idle")
             /\ heap[hist'.ref].status = OutputStatus_DONE => hist'.seen = <<>>]_vars

\* C27: an execute_input message processed while the status of the output is
\* DONE already signals a protocol violation and leaves the recorded
\* execution_count as it was and the session in a state it can go on from.
C27_ExecuteInputOnDoneSignalled ==
    [][(hist'.op = "tick" /\ hist'.ref # None /\ kernel' = kernel
        /\ hist'.seen = <<ExecuteInput(1)>>
        /\ heap[hist'.ref].status = OutputStatus_DONE)
          => /\ hist'.exc = "AssertionError"
             /\ heap'[hist'.ref].execution_count = heap[hist'.ref].execution_count
             /\ state' \in {state, RuntimeState_IDLE}]_vars

\* C28: in every reachable state the current execution, when there is one, and
\* every entry of the pending queue is the value of a span that is present in
\* the outputs map.
C28_QueuedBelongToSpans ==
    registered
    => /\ current_output # None
          => \E j \in 1..Len(outputs) : outputs[j][2] = current_output
       /\ \A i \in 1..Len(queued_outputs) :
             \E j \in 1..Len(outputs) : outputs[j][2] = queued_outputs[i]

\* the kernel has ended the block of every submission with status idle
AllAnswered == kernel.sent = Len(KernelBlock(1)) * kernel.received

\* C29: ticks firing and the kernel ending every submission's block with status
\* idle, every output created by a run eventually reaches DONE: in a behaviour
\* where from some point on a run was made and every submission is answered,
\* some span of the ledger eventually holds an output that is DONE.
C29_RunEventuallyDone ==
    <>[](registered /\ hist.runs >= 1 /\ AllAnswered)
    => <>(\E i \in 1..Len(outputs) :
             /\ is_Output(outputs[i][2])
             /\ heap[outputs[i][2]].status = OutputStatus_DONE)

\* a tick of a ready session that read messages of the ignored kinds only
IgnoredOnlyStep ==
    /\ hist'.op = "tick"
    /\ kernel' = kernel
    /\ hist'.ref # None
    /\ state # RuntimeState_STARTING
    /\ hist'.seen # <<>>
    /\ \A i \in 1..Len(hist'.seen) : hist'.seen[i] \in IgnoredMessages

\* C30: a message of an ignored kind leaves the output's chunks, status,
\* success and execution_count and the session state unchanged and is reported
\* as no work done, a deferred clear pending or not.
C30_IgnoredMessageChangesNothing ==
    [][IgnoredOnlyStep
       => /\ hist'.exc = ""
          /\ ~hist'.did
          /\ state' = state
          /\ heap'[hist'.ref].chunks = heap[hist'.ref].chunks
          /\ heap'[hist'.ref].status = heap[hist'.ref].status
          /\ heap'[hist'.ref].success = heap[hist'.ref].success
          /\ heap'[hist'.ref].execution_count = heap[hist'.ref].execution_count]_vars


\* a tick of a ready session with a current output whose inbox holds exactly
\* one message, which lacks its content or a key its kind is read with
MissingFieldStep ==
    /\ hist'.op = "tick"
    /\ kernel' = kernel
    /\ hist'.ref # None
    /\ state # RuntimeState_STARTING
    /\ Len(inbox) = 1
    /\ ~inbox[1].has_content \/ ~inbox[1].has_keys

\* C31: a message that lacks a field required for its kind is skipped: the
\* tick reports no work, raises no error, and leaves the output and the session
\* state unchanged.
C31_MissingFieldSkipped ==
    [][MissingFieldStep
       => /\ hist'.exc = ""
          /\ ~hist'.did
          /\ state' = state
          /\ heap' = heap]_vars


\* C32: an execute_reply with an abort outcome appends an Aborted chunk to
\* the current output and sets its success flag to false.
C32_AbortedReplyRecorded ==
    \A o \in Outs :
        hist.drained[o] = <<ExecuteReply("aborted")>>
        => /\ heap[o].chunks = <<AbortedOutputChunk>>
           /\ ~heap[o].success


\* C33: the readiness notification fires in exactly the ticks in which the
\* session goes from not ready (STARTING) to ready, and never in a tick that
\* began with the session ready.
C33_NotifiedOncePerReadiness ==
    [][(hist'.op = "tick" /\ kernel' = kernel)
       => hist'.notified = (~is_ready(state) /\ is_ready(state'))]_vars


\* C34: with the receive thread putting messages concurrently, the read of
\* the one consumer never waits (its get is reached with a message queued),
\* and the messages handed out followed by the messages still queued are the
\* messages received, each once, in arrival order.
C34_ReadNeverBlocksInOrder ==
    /\ consumer = "get" => ~Queue_empty(inbox)
    /\ hist.seen \o inbox = [i \in 1..kernel.sent |-> ExecuteInput(i)]
    /\ (hist.op = "get_iopub_msg" /\ hist.exc = "" /\ consumer = "idle")
       => hist.seen # <<>>

\* a get is about to run while the thread has put further messages behind
\* the oldest one, earlier messages having been handed out
C34_PutBetweenCheckAndGet ==
    /\ consumer = "get"
    /\ Len(inbox) >= 2
    /\ Len(hist.seen) >= 2


\* C35 as stated: after run(code, span) returns, the selected span is span.
C35_RunSelectsSpan ==
    (hist.op = "evaluate" /\ hist.exc = "") => selected_cell = hist.span

\* C35: after run(code, span), returned or failed in its refresh, the selected
\* span is the one the refresh finds under the cursor: it is span exactly when
\* span contains the cursor, and otherwise an older span or none.
C35_RunSelectsSpanUnderCursor ==
    (hist.op \in {"evaluate", "reevaluate"} /\ hist.span # None)
    => /\ selected_cell = get_selected_span(spans, outputs, cursor)
       /\ (selected_cell = hist.span) = Span_contains(spans[hist.span], cursor)

\* a run of a region the cursor is not in has returned with nothing selected
C35_RunAwayFromCursor ==
    /\ hist.op = "evaluate"
    /\ hist.exc = ""
    /\ ~Span_contains(spans[hist.span], cursor)
    /\ selected_cell = None


\* C36: interrupt, submit, delete and select leave the session state unchanged,
\* and change the ledger's outputs, the pending queue and the current execution
\* only by what they add or remove: interrupt and select nothing, delete the
\* entry of the span under the cursor, submit the entry of its span and one
\* execution appended to the queue (which becomes current if none is in flight).
C36_OnlyDrainAndRestartChangeState ==
    [][(hist' # hist /\ hist'.op \in {"interrupt", "evaluate", "reevaluate", "delete",
                                      "update_interface"})
       => /\ state' = state
          /\ hist'.op \in {"interrupt", "update_interface"}
             => /\ outputs' = outputs
                /\ queued_outputs' = queued_outputs
                /\ current_output' = current_output
          /\ hist'.op = "delete"
             => /\ outputs' = IF hist'.span = None THEN outputs
                              ELSE dict_del(outputs, hist'.span)
                /\ queued_outputs' = queued_outputs
                /\ current_output' = current_output
          /\ (hist'.op \in {"evaluate", "reevaluate"} /\ hist'.span = None)
             => /\ outputs' = outputs
                /\ queued_outputs' = queued_outputs
                /\ current_output' = current_output
          /\ (hist'.op \in {"evaluate", "reevaluate"} /\ hist'.span # None)
             => /\ dict_del(outputs', hist'.span) = dict_del(outputs, hist'.span)
                /\ dict_has(outputs', hist'.span)
                /\ LET q == Append(queued_outputs, dict_get(outputs', hist'.span))
                   IN  \/ queued_outputs' = q /\ current_output' = current_output
                       \/ queued_outputs' = Tail(q) /\ current_output' = Head(q)]_vars

\* an interrupt was sent in a session that is ready and holds outputs
C36_InterruptWhileIdle ==
    /\ hist.op = "interrupt"
    /\ state = RuntimeState_IDLE
    /\ outputs # <<>>


\* C37: every session created and not yet shut down is the one registered for
\* its document, so the teardown at exit leaves no session live.
C37_LiveSessionsRegistered ==
    /\ \A s \in 1..Len(live) : live[s] => \E doc \in Docs : buffers[doc] = s
    /\ hist.op = "exit_pre" => \A s \in 1..Len(live) : ~live[s]


\* C38: every temp file created through the session's allocator is recorded
\* in allocated_files, also when the with block fails, so that after the
\* shutdown none of the session's temp files is left.
C38_TempFilesRecorded ==
    /\ tempfiles \subseteq Range(allocated_files)
    /\ hist.op = "deinit" => tempfiles = {}


\* C39: the step that opens the output window is reached only with no window
\* open (the assertion of _show_outputs never fails), and between the entry
\* points the updating-interface guard is false.
C39_OneWindowGuardReleased ==
    /\ hist.exc # "AssertionError"
    /\ ~updating_interface


\* the first present after a clear and the adds that followed it, no image
\* added twice and none waiting to be presented when clear was called
PresentAfterClearStep ==
    /\ hist'.op = "present"
    /\ hist.op \in {"clear", "add_image"}
    /\ ~hist.did
    /\ hist.pre_empty
    /\ \A i, j \in 1..Len(hist.seen) : hist.seen[i][1] = hist.seen[j][1] => i = j

\* C40: for each backend, after clear(), add_image calls and present(), every
\* image added is shown at the coordinates of its add_image call, and an image
\* that was shown before and not added again is hidden.
C40_PresentShowsAddedAtGivenPlace ==
    [][PresentAfterClearStep
       => LET added == hist.seen
              ids == {added[i][1] : i \in 1..Len(added)}
          IN  /\ \A i \in 1..Len(added) : added[i] \in canvas'.screen
              /\ \A p \in canvas.screen : p[1] \notin ids => p \notin canvas'.screen]_vars

============================================================================
